---- MODULE Spec2Model ----
(***************************************************************************)
(* Model of the Cypress 10 conversion utilities                            *)
(* (packages/cypress/src/generators/convert-to-cypress-10/conversion.util) *)
(*                                                                         *)
(* Paths, import literals and leaves are TLA+ strings handled character by *)
(* character (Len, SubSeq, \o), so substring tests and first-occurrence    *)
(* replacement behave as the JavaScript String methods do.                 *)
(***************************************************************************)
EXTENDS Integers, Sequences, FiniteSets, TLC

(***************************************************************************)
(* JavaScript values that may be a string, false or absent.                *)
(***************************************************************************)
Undefined == [t |-> "undefined"]
False == [t |-> "false"]
Str(s) == [t |-> "string", v |-> s]
Truthy(x) == x.t = "string" /\ x.v # ""

(***************************************************************************)
(* String.prototype.indexOf / includes / endsWith / replace (string        *)
(* pattern: the first occurrence only).                                    *)
(***************************************************************************)
Occurs(s, sub, i) == i + Len(sub) - 1 <= Len(s) /\ SubSeq(s, i, i + Len(sub) - 1) = sub

IndexOf(s, sub) ==
  LET hits == {i \in 1..(Len(s) + 1) : Occurs(s, sub, i)}
  IN IF hits = {} THEN 0 ELSE CHOOSE i \in hits : \A j \in hits : i <= j

LastIndexOf(s, sub) ==
  LET hits == {i \in 1..(Len(s) + 1) : Occurs(s, sub, i)}
  IN IF hits = {} THEN 0 ELSE CHOOSE i \in hits : \A j \in hits : i >= j

includes(s, sub) == IndexOf(s, sub) # 0

endsWith(s, suf) == Len(suf) <= Len(s) /\ SubSeq(s, Len(s) - Len(suf) + 1, Len(s)) = suf

startsWith(s, pre) == Len(pre) <= Len(s) /\ SubSeq(s, 1, Len(pre)) = pre

replace(s, sub, new) ==
  LET i == IndexOf(s, sub)
  IN IF i = 0 THEN s
     ELSE SubSeq(s, 1, i - 1) \o new \o SubSeq(s, i + Len(sub), Len(s))

(***************************************************************************)
(* Node's path.basename / dirname / extname on POSIX paths without         *)
(* trailing separators.                                                    *)
(***************************************************************************)
extname(p) ==
  LET slash == LastIndexOf(p, "/")
      dot == LastIndexOf(p, ".")
  IN IF dot = 0 \/ dot <= slash + 1 THEN "" ELSE SubSeq(p, dot, Len(p))

basename(p, ext) ==
  LET b == SubSeq(p, LastIndexOf(p, "/") + 1, Len(p))
  IN IF ext # "" /\ b # ext /\ endsWith(b, ext)
     THEN SubSeq(b, 1, Len(b) - Len(ext)) ELSE b

dirname(p) ==
  LET slash == LastIndexOf(p, "/")
  IN IF slash = 0 THEN "." ELSE IF slash = 1 THEN "/" ELSE SubSeq(p, 1, slash - 1)

(***************************************************************************)
(* joinPathFragments(a, b) from @nrwl/devkit: path.join followed by        *)
(* normalisation; for the relative, already normal fragments used here     *)
(* that is concatenation with a separator, an empty fragment adding        *)
(* nothing.                                                                *)
(***************************************************************************)
joinPathFragments(a, b) ==
  IF b = "" THEN a ELSE IF a = "" THEN b ELSE a \o "/" \o b

(***************************************************************************)
(* The virtual file tree: a function from file path to content.            *)
(* Directories are implicit: a directory exists while a file lies under it.*)
(***************************************************************************)
IsUnder(f, dir) == startsWith(f, dir \o "/")

TreeIsFile(t, p) == p \in DOMAIN t

TreeExists(t, p) == p \in DOMAIN t \/ \E f \in DOMAIN t : IsUnder(f, p)

TreeChildren(t, p) ==
  {LET rest == SubSeq(f, Len(p) + 2, Len(f))
       cut == IndexOf(rest, "/")
   IN IF cut = 0 THEN rest ELSE SubSeq(rest, 1, cut - 1) :
   f \in {g \in DOMAIN t : IsUnder(g, p)}}

TreeWrite(t, p, content) ==
  [f \in DOMAIN t \cup {p} |-> IF f = p THEN content ELSE t[f]]

TreeDelete(t, p) ==
  [f \in {g \in DOMAIN t : g # p /\ ~IsUnder(g, p)} |-> t[f]]

\* rename of an existing file; a same-path rename is a no-op
TreeRename(t, from, to) ==
  IF from = to THEN t ELSE TreeDelete(TreeWrite(t, to, t[from]), from)

\* the files visitNotIgnoredFiles hands to its visitor (no ignore file in the tree)
NotIgnoredFiles(t, dir) == {f \in DOMAIN t : IsUnder(f, dir)}

(***************************************************************************)
(* Program constants.                                                      *)
(***************************************************************************)
validFilesEndingsToUpdate == {".js", ".jsx", ".ts", ".tsx", ".mjs", ".cjs"}
LegacyExecutor == "@nrwl/cypress:cypress"
MinCypressVersion == 8
SpecPattern == "src/e2e/**/*.cy.{js,jsx,ts,tsx}"
DefaultIntegrationFolder == "src/e2e"
DefaultSupportFile == "src/support/e2e.ts"

\* verifyProjectForUpgrade with the version gate off by one (<= instead of <)
verifyProjectForUpgrade_VersionOffByOne(t, projectConfig, target, version) ==
  IF target \notin DOMAIN projectConfig.targets
  THEN [shouldUpgrade |-> FALSE,
        cypressConfigPathJson |-> Undefined,
        cypressConfigPathTs |-> Undefined]
  ELSE
    LET option == projectConfig.targets[target].options.cypressConfig
        cypressConfigPathJson ==
          IF Truthy(option) THEN option.v
          ELSE joinPathFragments(projectConfig.root, "cypress.json")
        cypressConfigPathTs == joinPathFragments(projectConfig.root, "cypress.config.ts")
    IN [shouldUpgrade |->
          IF version <= MinCypressVersion THEN FALSE
          ELSE /\ projectConfig.targets[target].executor = LegacyExecutor
               /\ TreeExists(t, cypressConfigPathJson)
               /\ ~TreeExists(t, cypressConfigPathTs),
        cypressConfigPathJson |-> Str(cypressConfigPathJson),
        cypressConfigPathTs |-> Str(cypressConfigPathTs)]

\* verifyProjectForUpgrade without the test that cypress.config.ts is absent
verifyProjectForUpgrade_NoNewConfigCheck(t, projectConfig, target, version) ==
  IF target \notin DOMAIN projectConfig.targets
  THEN [shouldUpgrade |-> FALSE,
        cypressConfigPathJson |-> Undefined,
        cypressConfigPathTs |-> Undefined]
  ELSE
    LET option == projectConfig.targets[target].options.cypressConfig
        cypressConfigPathJson ==
          IF Truthy(option) THEN option.v
          ELSE joinPathFragments(projectConfig.root, "cypress.json")
        cypressConfigPathTs == joinPathFragments(projectConfig.root, "cypress.config.ts")
    IN [shouldUpgrade |->
          IF version < MinCypressVersion THEN FALSE
          ELSE /\ projectConfig.targets[target].executor = LegacyExecutor
               /\ TreeExists(t, cypressConfigPathJson),
        cypressConfigPathJson |-> Str(cypressConfigPathJson),
        cypressConfigPathTs |-> Str(cypressConfigPathTs)]

(***************************************************************************)
(* verifyProjectForUpgrade(tree, projectConfig, target), with the value    *)
(* installedCypressVersion() returned.                                     *)
(***************************************************************************)
verifyProjectForUpgrade(t, projectConfig, target, version) ==
  IF target \notin DOMAIN projectConfig.targets
  THEN [shouldUpgrade |-> FALSE,
        cypressConfigPathJson |-> Undefined,
        cypressConfigPathTs |-> Undefined]
  ELSE
    LET option == projectConfig.targets[target].options.cypressConfig
        cypressConfigPathJson ==
          IF Truthy(option) THEN option.v
          ELSE joinPathFragments(projectConfig.root, "cypress.json")
        cypressConfigPathTs == joinPathFragments(projectConfig.root, "cypress.config.ts")
    IN [shouldUpgrade |->
          IF version < MinCypressVersion THEN FALSE
          ELSE /\ projectConfig.targets[target].executor = LegacyExecutor
               /\ TreeExists(t, cypressConfigPathJson)
               /\ ~TreeExists(t, cypressConfigPathTs),
        cypressConfigPathJson |-> Str(cypressConfigPathJson),
        cypressConfigPathTs |-> Str(cypressConfigPathTs)]

(***************************************************************************)
(* createNewCypressConfig: the new configuration from the parsed legacy    *)
(* one.  A field holding Undefined is an absent key.                       *)
(***************************************************************************)
Default(x, d) == IF x = Undefined THEN d ELSE x

\* createNewCypressConfig choosing the new support file without testing that the
\* legacy supportFile is truthy
createNewCypressConfig_IgnoreFalse(t, projectConfig, cypressConfigJson) ==
  LET baseUrl == cypressConfigJson.baseUrl
      integrationFolder == Default(cypressConfigJson.integrationFolder,
                                   Str(DefaultIntegrationFolder))
      supportFile == Default(cypressConfigJson.supportFile, Str(DefaultSupportFile))
      defaultSupport ==
        joinPathFragments(joinPathFragments(projectConfig.sourceRoot, "support"), "index.ts")
  IN [cypressConfigTs |->
        [baseUrl |-> IF Truthy(baseUrl) THEN baseUrl ELSE Undefined,
         e2e |-> [pluginsFile |-> cypressConfigJson.pluginsFile,
                  video |-> cypressConfigJson.video,
                  specPattern |-> Str(SpecPattern),
                  supportFile |->
                    IF TreeExists(t, defaultSupport)
                    THEN Str(DefaultSupportFile) ELSE supportFile,
                  integrationFolder |->
                    IF TreeExists(t, joinPathFragments(projectConfig.sourceRoot, "integration"))
                    THEN Str(DefaultIntegrationFolder) ELSE integrationFolder]],
      cypressConfigJson |-> cypressConfigJson]

createNewCypressConfig(t, projectConfig, cypressConfigJson) ==
  LET baseUrl == cypressConfigJson.baseUrl
      integrationFolder == Default(cypressConfigJson.integrationFolder,
                                   Str(DefaultIntegrationFolder))
      supportFile == Default(cypressConfigJson.supportFile, Str(DefaultSupportFile))
      defaultSupport ==
        joinPathFragments(joinPathFragments(projectConfig.sourceRoot, "support"), "index.ts")
  IN [cypressConfigTs |->
        [baseUrl |-> IF Truthy(baseUrl) THEN baseUrl ELSE Undefined,
         e2e |-> [pluginsFile |-> cypressConfigJson.pluginsFile,
                  video |-> cypressConfigJson.video,
                  specPattern |-> Str(SpecPattern),
                  supportFile |->
                    IF Truthy(supportFile) /\ TreeExists(t, defaultSupport)
                    THEN Str(DefaultSupportFile) ELSE supportFile,
                  integrationFolder |->
                    IF TreeExists(t, joinPathFragments(projectConfig.sourceRoot, "integration"))
                    THEN Str(DefaultIntegrationFolder) ELSE integrationFolder]],
      cypressConfigJson |-> cypressConfigJson]

(***************************************************************************)
(* The import leaves computed by updateProjectPaths (lines 240-263).       *)
(***************************************************************************)
NewImportLeafPath(newSupportFile) ==
  joinPathFragments(basename(dirname(newSupportFile), ""),
                    basename(newSupportFile, extname(newSupportFile)))

\* the old leaf computed by the rule of the new leaf
OldImportLeafPath_WithParent(oldSupportFile) ==
  LET oldRelativeImportPath == basename(oldSupportFile, extname(oldSupportFile))
  IN IF oldRelativeImportPath = "index"
     THEN basename(dirname(oldSupportFile), "")
     ELSE joinPathFragments(basename(dirname(oldSupportFile), ""), oldRelativeImportPath)

OldImportLeafPath(oldSupportFile) ==
  LET oldRelativeImportPath == basename(oldSupportFile, extname(oldSupportFile))
  IN IF oldRelativeImportPath = "index"
     THEN basename(dirname(oldSupportFile), "")
     ELSE oldRelativeImportPath

(***************************************************************************)
(* updateImports: a source file is the sequence of the values of its       *)
(* string literals.  The selector StringLiteral[value=/<old>$/] picks the  *)
(* literals ending with the old leaf; each is rewritten by                 *)
(* text.replace(old, new).                                                 *)
(***************************************************************************)
RewriteLiteral(text, oldImportPath, newImportPath) ==
  IF endsWith(text, oldImportPath)
  THEN replace(text, oldImportPath, newImportPath)
  ELSE text

RewriteContent(content, oldImportPath, newImportPath) ==
  IF content.kind = "source"
  THEN [content EXCEPT !.literals =
          [i \in DOMAIN content.literals |->
             RewriteLiteral(content.literals[i], oldImportPath, newImportPath)]]
  ELSE content

updateImports(t, filePath, oldImportPath, newImportPath) ==
  TreeWrite(t, filePath, RewriteContent(t[filePath], oldImportPath, newImportPath))

(***************************************************************************)
(* writeNewConfig: the emitted cypress.config.ts, kept as the parts the    *)
(* template interpolates.                                                  *)
(***************************************************************************)
NewConfigContent(cypressConfigTs) ==
  LET pluginsFile == Default(cypressConfigTs.e2e.pluginsFile, False)
  IN [kind |-> "config",
      pluginImport |-> IF Truthy(pluginsFile) THEN pluginsFile ELSE Str(""),
      convertedConfig |-> [video |-> cypressConfigTs.e2e.video,
                           specPattern |-> cypressConfigTs.e2e.specPattern,
                           supportFile |-> cypressConfigTs.e2e.supportFile],
      setupNodeEvents |-> Truthy(pluginsFile)]

writeNewConfig(t, cypressConfigPathTs, cypressConfigs) ==
  TreeWrite(t, cypressConfigPathTs, NewConfigContent(cypressConfigs.cypressConfigTs))

(***************************************************************************)
(* Bounds of the model and the inputs drawn within them.                   *)
(***************************************************************************)
MaxRuns == 2          \* invocations of updateProject on the same workspace
MaxTargets == 2       \* length of options.targets
MaxSourceFiles == 3   \* files under the project's source root

ProjectRoot == "p"
SourceRoot == "p/src"
OldConfigPath == "p/cypress.json"
NewConfigPath == "p/cypress.config.ts"

Source(literals) == [kind |-> "source", literals |-> literals]

\* candidate files under the source root, each with the values of its string literals
SourceFiles ==
  [f \in {"p/src/integration/a.spec.ts", "p/src/integration/b.spec.d/c.spec.ts",
          "p/src/support/index.ts", "p/src/support/commands.ts", "p/src/e2e/a.cy.ts"} |->
     CASE f = "p/src/integration/a.spec.ts" -> Source(<<"../support", "../support/commands">>)
       [] f = "p/src/integration/b.spec.d/c.spec.ts" -> Source(<<"../../support/support">>)
       [] f = "p/src/support/index.ts" -> Source(<<"./commands">>)
       [] f = "p/src/support/commands.ts" -> Source(<<>>)
       [] f = "p/src/e2e/a.cy.ts" -> Source(<<"../support">>)]

LegacyConfig(integrationFolder, supportFile, baseUrl, pluginsFile, video) ==
  [integrationFolder |-> integrationFolder, supportFile |-> supportFile,
   baseUrl |-> baseUrl, pluginsFile |-> pluginsFile, video |-> video]

LegacyConfigs ==
  {LegacyConfig(i, s, Undefined, Undefined, Undefined) :
     i \in {Undefined, Str("src/integration"), Str("src/e2e")},
     s \in {Undefined, False, Str("src/support/index.ts"), Str("src/support/commands.ts")}}
  \cup {LegacyConfig(Str("src/integration"), Str("src/support/index.ts"),
                     Str("http://x"), Str("./src/plugins/index"), False)}

\* what the old config file can hold: a legacy configuration, or text that is not JSON
OldConfigContents == {[kind |-> "json", json |-> c] : c \in LegacyConfigs}
                     \cup {[kind |-> "text"]}

Restrict(f, S) == [x \in S |-> f[x]]

Trees ==
  {LET src == Restrict(SourceFiles, S)
       withOld == IF old = {} THEN src
                  ELSE TreeWrite(src, OldConfigPath, CHOOSE c \in old : TRUE)
   IN IF new THEN TreeWrite(withOld, NewConfigPath, [kind |-> "config"]) ELSE withOld :
   S \in {T \in SUBSET DOMAIN SourceFiles : Cardinality(T) <= MaxSourceFiles},
   old \in {{}} \cup {{c} : c \in OldConfigContents},
   new \in BOOLEAN}

Options(cypressConfig) ==
  [cypressConfig |-> cypressConfig, testingType |-> Undefined,
   devServerTarget |-> Str("app:serve")]

Projects ==
  {[root |-> ProjectRoot, sourceRoot |-> SourceRoot,
    targets |-> IF ci
                THEN [n \in {"e2e", "ci"} |->
                        IF n = "e2e" THEN [executor |-> ex, options |-> Options(Undefined)]
                        ELSE [executor |-> LegacyExecutor,
                              options |-> Options(Str(OldConfigPath))]]
                ELSE [n \in {"e2e"} |-> [executor |-> ex, options |-> Options(Undefined)]]] :
   ex \in {LegacyExecutor, "@nrwl/jest:jest"}, ci \in BOOLEAN}

TargetLists ==
  UNION {[1..n -> {"e2e", "ci"}] : n \in 1..MaxTargets}

Versions == {MinCypressVersion - 1, MinCypressVersion}

Range(seq) == {seq[i] : i \in DOMAIN seq}

None == [t |-> "none"]

(***************************************************************************)
(* State.                                                                  *)
(***************************************************************************)
VARIABLES
  tree,            \* the virtual file tree
  storedConfig,    \* the project configuration held by the workspace
  installed,       \* installedCypressVersion()
  run,             \* invocations of updateProject started so far
  pc,              \* position inside updateProject
  targets,         \* options.targets
  idx,             \* position of the loop over options.targets
  projectConfig,   \* the configuration read at line 29 and mutated at line 49
  verdict,         \* the result of verifyProjectForUpgrade for targets[idx]
  cypressConfigs,  \* the result of createNewCypressConfig
  paths,           \* the locals of updateProjectPaths
  pending,         \* files visitNotIgnoredFiles has still to hand to the visitor
  history          \* what happened, for stating the properties

vars == <<tree, storedConfig, installed, run, pc, targets, idx, projectConfig,
          verdict, cypressConfigs, paths, pending, history>>

NoHistory ==
  [runStart |-> None,      \* tree and stored configuration when the invocation began
   upgraded |-> {},        \* targets found eligible in this invocation
   migrations |-> <<>>,    \* completed migrations, all invocations
   removed |-> {},         \* old config files deleted in this invocation
   preTree |-> None,       \* the tree when updateProjectPaths was entered
   renamed |-> {},         \* <<from, to>> of the renames that moved a file
   imported |-> <<>>,      \* the updateImports calls of this migration
   error |-> "none"]       \* the exception that ended the invocation

Init ==
  /\ tree \in Trees
  /\ storedConfig \in Projects
  /\ installed \in Versions
  /\ run = 0
  /\ pc = "idle"
  /\ targets = <<>>
  /\ idx = 0
  /\ projectConfig = None
  /\ verdict = None
  /\ cypressConfigs = None
  /\ paths = None
  /\ pending = {}
  /\ history = NoHistory

(***************************************************************************)
(* updateProject, line 29: entry.  The first invocation draws the target   *)
(* list; later invocations repeat it.                                      *)
(***************************************************************************)
UpdateProject ==
  /\ pc = "idle"
  /\ run < MaxRuns
  /\ \E list \in IF run = 0 THEN TargetLists ELSE {targets} : targets' = list
  /\ run' = run + 1
  /\ projectConfig' = storedConfig
  /\ idx' = 1
  /\ pc' = "loop"
  /\ history' = [history EXCEPT
                   !.runStart = [tree |-> tree, storedConfig |-> storedConfig],
                   !.upgraded = {}, !.removed = {}]
  /\ UNCHANGED <<tree, storedConfig, installed, verdict, cypressConfigs, paths, pending>>

(***************************************************************************)
(* lines 30-32: verifyProjectForUpgrade for the next target.               *)
(***************************************************************************)
VerifyTarget ==
  /\ pc = "loop"
  /\ idx <= Len(targets)
  /\ verdict' = verifyProjectForUpgrade(tree, projectConfig, targets[idx], installed)
  /\ pc' = "verified"
  /\ UNCHANGED <<tree, storedConfig, installed, run, targets, idx, projectConfig,
                 cypressConfigs, paths, pending, history>>

(***************************************************************************)
(* lines 34-36: an ineligible target is skipped.                           *)
(***************************************************************************)
SkipTarget ==
  /\ pc = "verified"
  /\ ~verdict.shouldUpgrade
  /\ idx' = idx + 1
  /\ pc' = "loop"
  /\ UNCHANGED <<tree, storedConfig, installed, run, targets, projectConfig, verdict,
                 cypressConfigs, paths, pending, history>>

(***************************************************************************)
(* lines 38-42 and 132: readJson throws on a file that is not JSON;        *)
(* otherwise createNewCypressConfig.                                       *)
(***************************************************************************)
CreateConfig ==
  /\ pc = "verified"
  /\ verdict.shouldUpgrade
  /\ LET file == verdict.cypressConfigPathJson.v
         parses == TreeIsFile(tree, file) /\ tree[file].kind = "json"
     IN /\ cypressConfigs' =
             IF parses THEN createNewCypressConfig(tree, projectConfig, tree[file].json)
             ELSE None
        /\ pc' = IF parses THEN "paths" ELSE "failed"
        /\ history' = [history EXCEPT !.upgraded = @ \cup {targets[idx]},
                                      !.error = IF parses THEN @ ELSE "ParseError"]
  /\ UNCHANGED <<tree, storedConfig, installed, run, targets, idx, projectConfig,
                 verdict, paths, pending>>

(***************************************************************************)
(* updateProjectPaths, lines 182-264: the folders, the support file and    *)
(* the import leaves.  path.join throws on a fragment that is no string;   *)
(* tree.rename throws on a file that does not exist, a same-path rename    *)
(* being a no-op.                                                          *)
(***************************************************************************)
ShouldUpdateSupportFileImports(cypressConfigJson) == Truthy(cypressConfigJson.supportFile)

OldIntegrationFolder(project, cypressConfigJson) ==
  joinPathFragments(project.root, cypressConfigJson.integrationFolder.v)

DefaultSupportFilePath(project) ==
  joinPathFragments(joinPathFragments(project.sourceRoot, "support"), "index.ts")

NewSupportDefaultPath(project) ==
  joinPathFragments(joinPathFragments(project.sourceRoot, "support"), "e2e.ts")

RenameThrows(t, from, to) == from # to /\ ~TreeIsFile(t, from)

Moved(from, to) == IF from = to THEN {} ELSE {<<from, to>>}

RenameSupportFile ==
  /\ pc = "paths"
  /\ LET json == cypressConfigs.cypressConfigJson
         e2e == cypressConfigs.cypressConfigTs.e2e
         begun == [history EXCEPT !.preTree = tree, !.renamed = {}, !.imported = <<>>]
     IN IF json.integrationFolder.t # "string"
        THEN /\ pc' = "failed"
             /\ history' = [begun EXCEPT !.error = "TypeError"]
             /\ UNCHANGED <<tree, paths, pending>>
        ELSE
          LET folders == [oldIntegrationFolder |-> OldIntegrationFolder(projectConfig, json),
                          newIntegrationFolder |->
                            joinPathFragments(projectConfig.root, e2e.integrationFolder.v)]
          IN IF ShouldUpdateSupportFileImports(json)
             THEN
               LET oldSupportFile == joinPathFragments(projectConfig.root, json.supportFile.v)
                   newSupportFile == joinPathFragments(projectConfig.root, e2e.supportFile.v)
               IN IF RenameThrows(tree, oldSupportFile, newSupportFile)
                  THEN /\ pc' = "failed"
                       /\ history' = [begun EXCEPT !.error = "FileSystemInconsistency"]
                       /\ UNCHANGED <<tree, paths, pending>>
                  ELSE
                    LET after == TreeRename(tree, oldSupportFile, newSupportFile)
                    IN /\ tree' = after
                       /\ paths' = folders @@
                            [shouldUpdateSupportFileImports |-> TRUE,
                             oldSupportFile |-> Str(oldSupportFile),
                             newSupportFile |-> Str(newSupportFile),
                             oldImportLeafPath |-> Str(OldImportLeafPath(oldSupportFile)),
                             newImportLeafPath |-> Str(NewImportLeafPath(newSupportFile))]
                       /\ pending' = NotIgnoredFiles(after, projectConfig.sourceRoot)
                       /\ history' = [begun EXCEPT
                                        !.renamed = Moved(oldSupportFile, newSupportFile)]
                       /\ pc' = "visit"
             ELSE
               LET defaultSupportFile == DefaultSupportFilePath(projectConfig)
                   found == TreeExists(tree, defaultSupportFile)
                   after == IF found
                            THEN TreeRename(tree, defaultSupportFile,
                                            NewSupportDefaultPath(projectConfig))
                            ELSE tree
               IN /\ tree' = after
                  /\ paths' = folders @@
                       [shouldUpdateSupportFileImports |-> FALSE,
                        oldSupportFile |-> Undefined,
                        newSupportFile |-> e2e.supportFile,
                        oldImportLeafPath |-> Undefined,
                        newImportLeafPath |-> Undefined]
                  /\ pending' = NotIgnoredFiles(after, projectConfig.sourceRoot)
                  /\ history' = [begun EXCEPT
                                   !.renamed = IF found
                                               THEN {<<defaultSupportFile,
                                                       NewSupportDefaultPath(projectConfig)>>}
                                               ELSE {}]
                  /\ pc' = "visit"
  /\ UNCHANGED <<storedConfig, installed, run, targets, idx, projectConfig, verdict,
                 cypressConfigs>>

(***************************************************************************)
(* lines 268-287: the visitor, for one file of the traversal.              *)
(***************************************************************************)
NewPath(path, oldIntegrationFolder, newIntegrationFolder) ==
  LET fileName == basename(path, "")
      moved == replace(path, oldIntegrationFolder, newIntegrationFolder)
  IN IF includes(fileName, ".spec.") THEN replace(moved, ".spec.", ".cy.") ELSE moved

\* the visitor without its early return
IsRelocated_Always(path, oldIntegrationFolder) == TRUE

IsRelocated(path, oldIntegrationFolder) == includes(path, oldIntegrationFolder)

RewritesImports(path, shouldUpdateSupportFileImports) ==
  /\ shouldUpdateSupportFileImports
  /\ \E e \in validFilesEndingsToUpdate : endsWith(path, e)

VisitFile ==
  /\ pc = "visit"
  /\ \E path \in pending :
       /\ pending' = pending \ {path}
       /\ IF ~IsRelocated(path, paths.oldIntegrationFolder)
          THEN UNCHANGED <<tree, history>>
          ELSE
            LET newPath == NewPath(path, paths.oldIntegrationFolder,
                                   paths.newIntegrationFolder)
                renamed == TreeRename(tree, path, newPath)
                rewrite == RewritesImports(path, paths.shouldUpdateSupportFileImports)
            IN /\ tree' = IF rewrite
                          THEN updateImports(renamed, newPath, paths.oldImportLeafPath.v,
                                             paths.newImportLeafPath.v)
                          ELSE renamed
               /\ history' = [history EXCEPT
                    !.renamed = @ \cup Moved(path, newPath),
                    !.imported = IF rewrite
                                 THEN Append(@, [file |-> newPath,
                                                 before |-> renamed[newPath],
                                                 after |-> RewriteContent(renamed[newPath],
                                                             paths.oldImportLeafPath.v,
                                                             paths.newImportLeafPath.v),
                                                 oldImportPath |-> paths.oldImportLeafPath.v,
                                                 newImportPath |-> paths.newImportLeafPath.v])
                                 ELSE @]
  /\ UNCHANGED <<storedConfig, installed, run, pc, targets, idx, projectConfig, verdict,
                 cypressConfigs, paths>>

(***************************************************************************)
(* lines 289-291: the old integration folder is deleted once empty.        *)
(***************************************************************************)
DeleteEmptyFolder ==
  /\ pc = "visit"
  /\ pending = {}
  /\ tree' = IF TreeChildren(tree, paths.oldIntegrationFolder) = {}
             THEN TreeDelete(tree, paths.oldIntegrationFolder)
             ELSE tree
  /\ pc' = "write"
  /\ UNCHANGED <<storedConfig, installed, run, targets, idx, projectConfig, verdict,
                 cypressConfigs, paths, pending, history>>

(***************************************************************************)
(* lines 45-55: the new config file is written, the old one deleted, the   *)
(* target's options repointed and the project configuration stored.        *)
(***************************************************************************)
\* the options repointed without the testing type
RepointedOptions_NoTestingType(options, cypressConfigPathTs) ==
  [options EXCEPT !.cypressConfig = Str(cypressConfigPathTs)]

RepointedOptions(options, cypressConfigPathTs) ==
  [options EXCEPT !.cypressConfig = Str(cypressConfigPathTs), !.testingType = Str("e2e")]

FinishTarget ==
  /\ pc = "write"
  /\ LET target == targets[idx]
         ts == verdict.cypressConfigPathTs.v
         json == verdict.cypressConfigPathJson.v
         updated == [projectConfig EXCEPT
                       !.targets[target].options = RepointedOptions(@, ts)]
     IN /\ tree' = TreeDelete(writeNewConfig(tree, ts, cypressConfigs), json)
        /\ projectConfig' = updated
        /\ storedConfig' = updated
        /\ history' = [history EXCEPT
             !.removed = @ \cup {json},
             !.migrations = Append(@, [target |-> target,
                                       run |-> run,
                                       optionsBefore |-> projectConfig.targets[target].options,
                                       cypressConfigPathJson |-> json,
                                       cypressConfigPathTs |-> ts])]
  /\ idx' = idx + 1
  /\ pc' = "loop"
  /\ UNCHANGED <<installed, run, targets, verdict, cypressConfigs, paths, pending>>

(***************************************************************************)
(* line 57: the loop is over and updateProject returns.                    *)
(***************************************************************************)
Return ==
  /\ pc = "loop"
  /\ idx > Len(targets)
  /\ pc' = "idle"
  /\ UNCHANGED <<tree, storedConfig, installed, run, targets, idx, projectConfig,
                 verdict, cypressConfigs, paths, pending, history>>

Next ==
  \/ UpdateProject
  \/ VerifyTarget
  \/ SkipTarget
  \/ CreateConfig
  \/ RenameSupportFile
  \/ VisitFile
  \/ DeleteEmptyFolder
  \/ FinishTarget
  \/ Return

Spec == Init /\ [][Next]_vars

(***************************************************************************)
(* Properties.                                                             *)
(***************************************************************************)
MigrationUnderWay == cypressConfigs # None /\ pc \in {"paths", "visit", "write"}
PathsMigrated == cypressConfigs # None /\ pc = "write"
LegacyJson == cypressConfigs.cypressConfigJson

\* C1: verifyProjectForUpgrade answers shouldUpgrade = true exactly when the target
\* exists, the installed major version is at least 8, the executor is
\* '@nrwl/cypress:cypress', the old config file (the cypressConfig option, or
\* <root>/cypress.json when unset) exists and <root>/cypress.config.ts does not.
C1_EligibleIffAllConditions ==
  pc = "verified" =>
    LET target == targets[idx]
        present == target \in DOMAIN projectConfig.targets
        option == projectConfig.targets[target].options.cypressConfig
        old == IF option.t = "string" THEN option.v ELSE ProjectRoot \o "/cypress.json"
    IN verdict.shouldUpgrade <=>
         /\ present
         /\ installed >= 8
         /\ projectConfig.targets[target].executor = "@nrwl/cypress:cypress"
         /\ TreeExists(tree, old)
         /\ ~TreeExists(tree, ProjectRoot \o "/cypress.config.ts")

C1_Witness ==
  /\ pc = "verified"
  /\ verdict.shouldUpgrade
  /\ targets[idx] = "ci"

\* C2: once a target's migration has completed, the new config file
\* <root>/cypress.config.ts exists, the old config file does not, and the stored
\* options of the target are its previous options with cypressConfig set to the new
\* path and testingType set to 'e2e'.
C2_MigrationResult ==
  \A i \in DOMAIN history.migrations :
    LET m == history.migrations[i]
        new == ProjectRoot \o "/cypress.config.ts"
        options == storedConfig.targets[m.target].options
    IN /\ TreeIsFile(tree, new)
       /\ ~TreeExists(tree, m.cypressConfigPathJson)
       /\ DOMAIN options = DOMAIN m.optionsBefore
       /\ options.cypressConfig = Str(new)
       /\ options.testingType = Str("e2e")
       /\ \A k \in DOMAIN options \ {"cypressConfig", "testingType"} :
            options[k] = m.optionsBefore[k]

C2_Witness ==
  /\ pc = "loop"
  /\ Len(history.migrations) = 1
  /\ history.migrations[1].target = "ci"

\* C3 as stated: after updateProjectPaths every file whose path does not contain the
\* old integration folder is still at its path with its content.
C3_Original ==
  PathsMigrated =>
    \A f \in DOMAIN history.preTree :
      ~includes(f, paths.oldIntegrationFolder) =>
        TreeIsFile(tree, f) /\ tree[f] = history.preTree[f]

\* the file the support-file step renames: the legacy support file when one is in
\* use, otherwise the default <sourceRoot>/support/index.ts
RenamedSupportFile ==
  IF Truthy(LegacyJson.supportFile)
  THEN ProjectRoot \o "/" \o LegacyJson.supportFile.v
  ELSE SourceRoot \o "/support/index.ts"

\* C3 amended: after updateProjectPaths every file whose path does not contain the old
\* integration folder, other than the support file the migration renames, is still at
\* its path, with its content unless a renamed file was moved onto that path.
C3_OnlySupportFileAndSpecsRenamed ==
  PathsMigrated =>
    \A f \in DOMAIN history.preTree :
      (~includes(f, paths.oldIntegrationFolder) /\ f # RenamedSupportFile) =>
        /\ TreeIsFile(tree, f)
        /\ tree[f] = history.preTree[f] \/ \E r \in history.renamed : r[2] = f

C3_Witness ==
  /\ PathsMigrated
  /\ paths.shouldUpdateSupportFileImports
  /\ paths.oldIntegrationFolder = "p/src/integration"
  /\ <<"p/src/integration/a.spec.ts", "p/src/e2e/a.cy.ts">> \in history.renamed
  /\ TreeIsFile(history.preTree, "p/src/support/commands.ts")
  /\ RenamedSupportFile = "p/src/support/index.ts"
  /\ TreeIsFile(tree, "p/src/support/commands.ts")

\* the path C4 expects: the folder prefix replaced, and '.spec.' replaced by '.cy.' in
\* the file's own name
ExpectedPath(f, old, new) ==
  LET moved == new \o SubSeq(f, Len(old) + 1, Len(f))
      name == basename(moved, "")
  IN SubSeq(moved, 1, Len(moved) - Len(name)) \o replace(name, ".spec.", ".cy.")

\* C4: every file under the source root whose path contains the old integration
\* folder ends at the path with the folder prefix replaced and, when its name holds
\* '.spec.', that marker of the name replaced by '.cy.'; nothing stays at the old path
\* unless the two paths are equal.
C4_SpecsRelocatedAndRenamed ==
  PathsMigrated =>
    \A f \in NotIgnoredFiles(history.preTree, SourceRoot) :
      includes(f, paths.oldIntegrationFolder) =>
        LET expected == ExpectedPath(f, paths.oldIntegrationFolder,
                                     paths.newIntegrationFolder)
        IN /\ TreeIsFile(tree, expected)
           /\ expected # f => ~TreeIsFile(tree, f)

\* C5: with supportFile false in the legacy config, the new config's supportFile is
\* false as well, updateImports is never invoked, and every content in the tree is a
\* content the tree held before updateProjectPaths.
C5_FalseSupportFileNoRewriting ==
  (MigrationUnderWay /\ LegacyJson.supportFile = False) =>
    /\ cypressConfigs.cypressConfigTs.e2e.supportFile = False
    /\ pc \in {"visit", "write"} =>
         /\ history.imported = <<>>
         /\ \A f \in DOMAIN tree :
              \E g \in DOMAIN history.preTree : tree[f] = history.preTree[g]

C5_Witness ==
  /\ PathsMigrated
  /\ LegacyJson.supportFile = False
  /\ TreeIsFile(history.preTree, "p/src/support/index.ts")
  /\ <<"p/src/integration/a.spec.ts", "p/src/e2e/a.cy.ts">> \in history.renamed

\* the leaf rule of C6: '<parentDir>/<basenameWithoutExt>', or '<parentDir>' for 'index'
ImportLeaf(file) ==
  LET name == basename(file, extname(file))
      parent == basename(dirname(file), "")
  IN IF name = "index" THEN parent ELSE parent \o "/" \o name

\* C6 as stated: the old and the new import leaf are both computed by that one rule.
C6_Original ==
  (MigrationUnderWay /\ pc # "paths" /\ paths.shouldUpdateSupportFileImports) =>
    /\ paths.oldImportLeafPath.v = ImportLeaf(paths.oldSupportFile.v)
    /\ paths.newImportLeafPath.v = ImportLeaf(paths.newSupportFile.v)

\* C6 amended: the new import leaf is always '<parentDir>/<basenameWithoutExt>'; the
\* old import leaf is '<parentDir>' when the basename without extension is 'index' and
\* the bare '<basenameWithoutExt>' otherwise.
C6_LeavesAsComputed ==
  (MigrationUnderWay /\ pc # "paths" /\ paths.shouldUpdateSupportFileImports) =>
    LET old == paths.oldSupportFile.v
        new == paths.newSupportFile.v
        oldName == basename(old, extname(old))
        newName == basename(new, extname(new))
    IN /\ paths.oldImportLeafPath.v =
            IF oldName = "index" THEN basename(dirname(old), "") ELSE oldName
       /\ paths.newImportLeafPath.v = basename(dirname(new), "") \o "/" \o newName

C6_Witness ==
  /\ pc = "visit"
  /\ paths.shouldUpdateSupportFileImports
  /\ paths.oldSupportFile.v = "p/src/support/commands.ts"
  /\ paths.newSupportFile.v = "p/src/support/e2e.ts"
  /\ paths.oldImportLeafPath.v = "commands"
  /\ paths.newImportLeafPath.v = "support/e2e"

\* C7: when the legacy config omits integrationFolder or supportFile, updateProjectPaths
\* works with the declared defaults: it does not fail on the missing key, the old
\* integration folder is <root>/src/e2e and the support file takes the 'in use' branch.
C7_DefaultsEffective ==
  (/\ cypressConfigs # None
   /\ pc \in {"visit", "write", "failed"}
   /\ LegacyJson.integrationFolder = Undefined \/ LegacyJson.supportFile = Undefined) =>
    /\ history.error # "TypeError"
    /\ pc # "failed" =>
         /\ LegacyJson.integrationFolder = Undefined =>
              paths.oldIntegrationFolder = ProjectRoot \o "/src/e2e"
         /\ LegacyJson.supportFile = Undefined => paths.shouldUpdateSupportFileImports

\* C8: updateImports replaces, in every literal ending with the old leaf, exactly that
\* trailing occurrence and keeps what precedes it; other literals are unchanged.
C8_TrailingOccurrenceReplaced ==
  \A i \in DOMAIN history.imported :
    LET call == history.imported[i]
        old == call.oldImportPath
    IN \A k \in DOMAIN call.before.literals :
         LET text == call.before.literals[k]
         IN call.after.literals[k] =
              IF endsWith(text, old)
              THEN SubSeq(text, 1, Len(text) - Len(old)) \o call.newImportPath
              ELSE text

\* C9: when updateProject has returned, no listed legacy-executor target is left with a
\* cypressConfig option that names a config file this invocation deleted.
C9_NoDanglingConfigOption ==
  (pc = "idle" /\ run >= 1) =>
    \A k \in DOMAIN targets :
      LET target == targets[k]
      IN (/\ target \in DOMAIN storedConfig.targets
          /\ storedConfig.targets[target].executor = "@nrwl/cypress:cypress") =>
           LET option == storedConfig.targets[target].options.cypressConfig
           IN option.t = "string" => option.v \notin history.removed

MigratedInEarlierRun == \E i \in DOMAIN history.migrations : history.migrations[i].run < run

\* C10: in an invocation that follows one in which a target was migrated, every target
\* is found ineligible and neither the tree nor the stored configuration changes.
C10_Idempotent ==
  MigratedInEarlierRun =>
    /\ history.upgraded = {}
    /\ tree = history.runStart.tree
    /\ storedConfig = history.runStart.storedConfig

C10_Witness ==
  /\ MigratedInEarlierRun
  /\ pc = "idle"
  /\ \E i \in DOMAIN history.migrations : history.migrations[i].target \in Range(targets)

====
